---- MODULE Spec2Model ----
(***************************************************************************)
(* Model of the chat server: the Registry (ServerState), the per-user      *)
(* mailboxes, the liveness watchdog channel and the connection handler     *)
(* (client_connection / client_registration / client_teardown).            *)
(***************************************************************************)
EXTENDS Integers, Sequences, FiniteSets, TLC

(***************************************************************************)
(* Bounds of the model.                                                    *)
(***************************************************************************)
NumConns == 4
MaxAccepted == 2
NumNames == 2
NumRooms == 1
MaxMailbox == 1

Conns == 1..NumConns
UserNames == {<<"@", i>> : i \in 1..NumNames}
RoomNames == {<<"#", i>> : i \in 1..NumRooms}
Texts == {<<"text", 1>>}

NoName == <<"None">>

(***************************************************************************)
(* Finite maps (HashMap) and iteration orders of a HashSet.                *)
(***************************************************************************)
EmptyMap == [x \in {} |-> x]

Put(f, k, v) == [x \in (DOMAIN f) \cup {k} |-> IF x = k THEN v ELSE f[x]]

Del(f, k) == [x \in (DOMAIN f) \ {k} |-> f[x]]

Orders(S) ==
  {o \in [1..Cardinality(S) -> S] : \A i, j \in DOMAIN o : i # j => o[i] # o[j]}

(***************************************************************************)
(* ServerError, ParseError, FormatError and OutgoingMsg values.            *)
(***************************************************************************)
Ok == <<"Ok">>
Panic == <<"Panic">>
RoomUnknown(r) == <<"RoomUnknown", r>>
UserAlreadyExists(u) == <<"UserAlreadyExists", u>>
UserNotInRoom(u, r) == <<"UserNotInRoom", u, r>>
UserUnknown(u) == <<"UserUnknown", u>>

BadNameFormat == <<"BadNameFormat">>
BadRoomNameFormat == <<"BadRoomNameFormat">>
BadArguments == <<"BadArguments">>
ParseErrors == {BadNameFormat, BadRoomNameFormat, BadArguments}

MaxLineLengthExceeded == <<"MaxLineLengthExceeded">>

\* Command, IncomingMsg and ParsedAction values
CmdName == <<"Name">>
CmdJoin == <<"Join">>
CmdLeave == <<"Leave">>
CmdSay == <<"Say">>
CmdUsers == <<"Users">>
CmdRooms == <<"Rooms">>
CmdPong == <<"Pong">>
Commands == {CmdName, CmdJoin, CmdLeave, CmdSay, CmdUsers, CmdRooms, CmdPong}

MsgQuit == <<"Quit">>
MsgName(n) == <<"Name", n>>
MsgJoin(r) == <<"Join", r>>
MsgLeave(r) == <<"Leave", r>>
MsgSayRoom(r, text) == <<"SayRoom", r, text>>
MsgSayUser(u, text) == <<"SayUser", u, text>>
MsgUsers(r) == <<"Users", r>>
MsgRooms == <<"Rooms">>
MsgPong == <<"Pong">>

ParsedNone == <<"ParsedAction::None">>
Process(msg) == <<"Process", msg>>
ParsedError(cmd, err) == <<"Error", cmd, err>>

\* The ParsedActions a handler is given: every shape parse_incoming returns,
\* over the names of the model
ParserErrors ==
  {ParsedError(CmdName, e) : e \in {BadNameFormat, BadArguments}}
    \cup {ParsedError(cmd, e) : cmd \in {CmdJoin, CmdLeave, CmdUsers},
                                e \in {BadRoomNameFormat, BadArguments}}
    \cup {ParsedError(CmdSay, e) : e \in ParseErrors}
    \cup {ParsedError(cmd, BadArguments) : cmd \in {CmdRooms, CmdPong}}

Frames ==
  {ParsedNone, Process(MsgQuit), Process(MsgPong), Process(MsgRooms)}
    \cup {Process(MsgName(n)) : n \in UserNames}
    \cup {Process(MsgJoin(r)) : r \in RoomNames}
    \cup {Process(MsgLeave(r)) : r \in RoomNames}
    \cup {Process(MsgUsers(r)) : r \in RoomNames}
    \cup {Process(MsgSayRoom(r, t)) : r \in RoomNames, t \in Texts}
    \cup {Process(MsgSayUser(u, t)) : u \in UserNames, t \in Texts}
    \cup ParserErrors

Ping == <<"Ping">>
Connected == <<"Connected">>
Registered == <<"Registered">>
SaidUser(from, text) == <<"SaidUser", from, text>>
SaidRoom(room, from, text) == <<"SaidRoom", room, from, text>>
RoomLine(r) == <<"Room", r>>
UserLine(u) == <<"User", u>>

SendPing == <<"SendPing">>
GotPong == <<"GotPong">>
PongTimeout == <<"PongTimeout">>

(***************************************************************************)
(* User::new                                                               *)
(***************************************************************************)
NewUser(c) == [sender |-> c, rooms |-> {}]

VARIABLES
  users,      \* ServerState.users : name -> [sender, rooms]
  rooms,      \* ServerState.rooms : room name -> set of member names
  lock,       \* holder of the ServerState mutex across a suspension, 0 if none
  pc,         \* position of each connection handler
  name,       \* ClientConn.name
  mailbox,    \* the OutgoingMsg channel of each connection
  wr,         \* number of lines the handler is still to write in its current send loop
  last,       \* the event of the latest step, with the state before it
  now,            \* the clock, in seconds since the connection was made
  last_activity,  \* PingPongTable.last_activity
  wake_at,        \* when the sleep of the watchdog worker ends
  ppt,            \* the PingPongBall channel of the PingPongTable
  pong_at,        \* when the handler last parsed a PONG (0 if it never did)
  said,           \* number of SAY commands each connection has issued
  written,        \* the mailbox messages each connection has written to its socket
  has_errored     \* the Framed stream of the connection ends at its next read

wvars == <<now, last_activity, wake_at, ppt, pong_at>>

fvars == <<said, written>>

vars == <<users, rooms, lock, pc, name, mailbox, wr, last, now, last_activity, wake_at, ppt, pong_at,
          said, written, has_errored>>

(***************************************************************************)
(* ServerState operations.  Each takes the registry S = [users, rooms] and *)
(* returns the registry after the call together with the call's result.    *)
(***************************************************************************)
Reg(us, rs, r) == [users |-> us, rooms |-> rs, res |-> r]

add_user_overwrites(S, n, user) ==
  Reg(Put(S.users, n, user), S.rooms, Ok)

add_user(S, n, user) ==
  IF n \in DOMAIN S.users
    THEN Reg(S.users, S.rooms, UserAlreadyExists(n))
    ELSE Reg(Put(S.users, n, user), S.rooms, Ok)

leave_room(S, room_name, user_name) ==
  IF room_name \in DOMAIN S.rooms
    THEN IF user_name \in S.rooms[room_name]
           THEN LET members == S.rooms[room_name] \ {user_name}
                    rooms1 == IF members = {}
                                THEN Del(S.rooms, room_name)
                                ELSE [S.rooms EXCEPT ![room_name] = members]
                    users1 == IF user_name \in DOMAIN S.users
                                THEN [S.users EXCEPT ![user_name].rooms = @ \ {room_name}]
                                ELSE S.users
                IN  Reg(users1, rooms1, Ok)
           ELSE Reg(S.users, S.rooms, UserNotInRoom(user_name, room_name))
    ELSE Reg(S.users, S.rooms, RoomUnknown(room_name))

\* the loop of remove_user over user.rooms, in the iteration order `order`
RECURSIVE leave_rooms(_, _, _, _)
leave_rooms(S, order, i, user_name) ==
  IF i > Len(order)
    THEN Reg(S.users, S.rooms, Ok)
    ELSE LET r == leave_room(S, order[i], user_name)
         IN  IF r.res = Ok
               THEN leave_rooms(r, order, i + 1, user_name)
               ELSE r

remove_user(S, n, order) ==
  IF n \in DOMAIN S.users
    THEN leave_rooms(Reg(Del(S.users, n), S.rooms, Ok), order, 1, n)
    ELSE Reg(S.users, S.rooms, UserUnknown(n))

join_room_forgets(S, room_name, user_name) ==
  IF user_name \notin DOMAIN S.users
    THEN Reg(S.users, S.rooms, UserUnknown(user_name))
    ELSE LET rooms1 == IF room_name \in DOMAIN S.rooms
                         THEN [S.rooms EXCEPT ![room_name] = @ \cup {user_name}]
                         ELSE Put(S.rooms, room_name, {user_name})
         IN  Reg(S.users, rooms1, Ok)

join_room_creates(S, room_name, user_name) ==
  LET rooms1 == IF room_name \in DOMAIN S.rooms
                  THEN [S.rooms EXCEPT ![room_name] = @ \cup {user_name}]
                  ELSE Put(S.rooms, room_name, {user_name})
  IN  IF user_name \notin DOMAIN S.users
        THEN Reg(S.users, rooms1, UserUnknown(user_name))
        ELSE Reg([S.users EXCEPT ![user_name].rooms = @ \cup {room_name}], rooms1, Ok)

join_room(S, room_name, user_name) ==
  IF user_name \notin DOMAIN S.users
    THEN Reg(S.users, S.rooms, UserUnknown(user_name))
    ELSE LET rooms1 == IF room_name \in DOMAIN S.rooms
                         THEN [S.rooms EXCEPT ![room_name] = @ \cup {user_name}]
                         ELSE Put(S.rooms, room_name, {user_name})
         IN  Reg([S.users EXCEPT ![user_name].rooms = @ \cup {room_name}], rooms1, Ok)

rename_user(S, old_name, new_name) ==
  IF old_name \in DOMAIN S.users
    THEN LET user == S.users[old_name]
             rooms1 == [r \in DOMAIN S.rooms |->
                          IF r \in user.rooms
                            THEN (S.rooms[r] \ {old_name}) \cup {new_name}
                            ELSE S.rooms[r]]
         IN  Reg(Put(Del(S.users, old_name), new_name, user), rooms1, Ok)
    ELSE Reg(S.users, S.rooms, UserUnknown(old_name))

\* ServerState::rooms and ServerState::users: the names listed, in no order
rooms_of(S) == DOMAIN S.rooms

users_of(S, room_name) ==
  IF room_name \in DOMAIN S.rooms
    THEN [res |-> Ok, list |-> S.rooms[room_name]]
    ELSE [res |-> RoomUnknown(room_name), list |-> {}]

(***************************************************************************)
(* Mailboxes.  The receiver of connection c is dropped when its handler    *)
(* ends; User::send then fails and the callers' unwrap() panics.           *)
(***************************************************************************)
Closed(c) == pc[c] = "closed"

Said(mb, r) == [mailbox |-> mb, res |-> r]

say_to_user_prepends(S, mb, from_user, to_user, message) ==
  IF to_user \in DOMAIN S.users
    THEN LET to == S.users[to_user].sender
         IN  IF Closed(to)
               THEN Said(mb, Panic)
               ELSE Said([mb EXCEPT ![to] = <<SaidUser(from_user, message)>> \o @], Ok)
    ELSE Said(mb, UserUnknown(to_user))

say_to_user(S, mb, from_user, to_user, message) ==
  IF to_user \in DOMAIN S.users
    THEN LET to == S.users[to_user].sender
         IN  IF Closed(to)
               THEN Said(mb, Panic)
               ELSE Said([mb EXCEPT ![to] = Append(@, SaidUser(from_user, message))], Ok)
    ELSE Said(mb, UserUnknown(to_user))

\* the loop of say_to_room over room.users, in the iteration order `order`
RECURSIVE say_loop(_, _, _, _, _, _, _)
say_loop(S, mb, order, i, user_name, room_name, message) ==
  IF i > Len(order)
    THEN Said(mb, Ok)
    ELSE LET room_user_name == order[i]
         IN  IF room_user_name # user_name /\ room_user_name \in DOMAIN S.users
               THEN LET to == S.users[room_user_name].sender
                    IN  IF Closed(to)
                          THEN Said(mb, Panic)
                          ELSE say_loop(S,
                                 [mb EXCEPT ![to] =
                                    Append(@, SaidRoom(room_name, user_name, message))],
                                 order, i + 1, user_name, room_name, message)
               ELSE say_loop(S, mb, order, i + 1, user_name, room_name, message)

say_to_room_torn(S, mb, user_name, room_name, message, order) ==
  IF room_name \in DOMAIN S.rooms
    THEN LET r == say_loop(S, mb, order, 1, user_name, room_name, message)
             first == S.users[order[1]].sender
         IN  Said([r.mailbox EXCEPT ![first] =
                     IF Len(@) > 1 THEN <<@[Len(@)]>> \o SubSeq(@, 1, Len(@) - 1) ELSE @],
                  r.res)
    ELSE Said(mb, RoomUnknown(room_name))

say_to_room(S, mb, user_name, room_name, message, order) ==
  IF room_name \in DOMAIN S.rooms
    THEN say_loop(S, mb, order, 1, user_name, room_name, message)
    ELSE Said(mb, RoomUnknown(room_name))

(***************************************************************************)
(* The liveness watchdog: what one wake of the worker sends for the        *)
(* elapsed time it reads.                                                  *)
(***************************************************************************)
PingAfter == 90
TimeoutAfter == 180
NoBall == <<"NoBall">>
ElapsedSamples == {0, PingAfter, TimeoutAfter}

worker_ball_late(elapsed) ==
  IF elapsed > TimeoutAfter
    THEN PongTimeout
    ELSE IF elapsed > PingAfter THEN SendPing ELSE NoBall

\* a worker that sends SendPing only past the threshold
worker_ball_ping_late(elapsed) ==
  IF elapsed >= TimeoutAfter
    THEN PongTimeout
    ELSE IF elapsed > PingAfter THEN SendPing ELSE NoBall

worker_ball(elapsed) ==
  IF elapsed >= TimeoutAfter
    THEN PongTimeout
    ELSE IF elapsed >= PingAfter THEN SendPing ELSE NoBall

WakeEvery == 90

\* PingPongTable::new and start_worker: the clock starts, the worker sleeps
WatchdogInit ==
  /\ now = 0
  /\ last_activity = 0
  /\ wake_at = WakeEvery
  /\ ppt = <<>>
  /\ pong_at = 0

\* Framed::new: the stream has met no decoder error
FramedInit == has_errored = [c \in Conns |-> FALSE]

\* nothing said, nothing written
LogsInit ==
  /\ said = [c \in Conns |-> 0]
  /\ written = [c \in Conns |-> <<>>]

(***************************************************************************)
(* Bookkeeping shared by the handler's steps.                              *)
(***************************************************************************)
State == [users |-> users, rooms |-> rooms]

\* the kind of a line given to send_message
Kind(line) ==
  IF line = Connected
    THEN "CONNECTED"
    ELSE IF line = Registered
           THEN "REGISTERED"
           ELSE IF line[1] \in {"SaidUser", "SaidRoom"} THEN "SAID" ELSE "OTHER"

\* What is kept of the lines a connection has given to send_message: the kind
\* of its first line, then the kinds CONNECTED, REGISTERED and SAID in the
\* order of their first lines, up to REGISTERED.  `kinds` is what was kept
\* before the connection gives `lines`.
RECURSIVE Mark(_, _)
Mark(kinds, lines) ==
  IF lines = <<>> \/ \E i \in DOMAIN kinds : kinds[i] = "REGISTERED"
    THEN kinds
    ELSE LET kind == Kind(Head(lines))
         IN  Mark(IF \/ \E i \in DOMAIN kinds : kinds[i] = kind
                     \/ kind = "OTHER" /\ kinds # <<>>
                    THEN kinds
                    ELSE Append(kinds, kind),
                  Tail(lines))

NoEvent ==
  [op |-> "none", conn |-> 0, args |-> <<>>, res |-> Ok, lines |-> <<>>, end |-> "none",
   at |-> "init", who |-> NoName, closed |-> {},
   users |-> EmptyMap, rooms |-> EmptyMap, mailbox |-> <<>>,
   sent |-> [c \in Conns |-> <<>>], pinged |-> FALSE]

\* step `o` of connection c: its arguments, the result of its ServerState call,
\* the lines it hands to send_message, why the handler leaves its loop or ends
\* in it (or "none"); and the state the step started in: the handler's position
\* and recorded name, the connections whose receiver is dropped, the registry
\* and the mailboxes.  `sent` is kept by Mark; `pinged` is kept by the steps of
\* the watched PingPongTable: its worker has sent SendPing since last_activity
\* was last set.
Event(o, c, a, r, ls, e) ==
  [op |-> o, conn |-> c, args |-> a, res |-> r, lines |-> ls, end |-> e,
   at |-> pc[c], who |-> name[c], closed |-> {d \in Conns : Closed(d)},
   users |-> users, rooms |-> rooms, mailbox |-> mailbox,
   sent |-> [last.sent EXCEPT ![c] = Mark(@, ls)], pinged |-> last.pinged]

\* the handler task ends: ClientConn is dropped, a held MutexGuard is released
Exit(c, mb) ==
  /\ pc' = [pc EXCEPT ![c] = "closed"]
  /\ name' = [name EXCEPT ![c] = NoName]
  /\ mailbox' = [mb EXCEPT ![c] = <<>>]
  /\ wr' = [wr EXCEPT ![c] = 0]
  /\ lock' = IF lock = c THEN 0 ELSE lock

\* the handler starts send_message for `lines` while its MutexGuard is alive
LockedWrite(c, lines, at) ==
  /\ pc' = [pc EXCEPT ![c] = at]
  /\ wr' = [wr EXCEPT ![c] = Len(lines)]
  /\ lock' = c

\* send_message(line).await? with no MutexGuard alive: the line is written, or
\* the I/O error ends the handler
Send(c, o, a, line, mb) ==
  \E ok \in BOOLEAN :
    IF ok
      THEN /\ mailbox' = mb
           /\ last' = Event(o, c, a, Ok, <<line>>, "none")
           /\ UNCHANGED <<pc, name, wr, lock>>
      ELSE /\ Exit(c, mb)
           /\ last' = Event(o, c, a, Ok, <<>>, "write_error")

Init ==
  /\ users = EmptyMap
  /\ rooms = EmptyMap
  /\ lock = 0
  /\ pc = [c \in Conns |-> "init"]
  /\ name = [c \in Conns |-> NoName]
  /\ mailbox = [c \in Conns |-> <<>>]
  /\ wr = [c \in Conns |-> 0]
  /\ last = NoEvent
  /\ WatchdogInit
  /\ LogsInit
  /\ FramedInit

(***************************************************************************)
(* main: the acceptor loop spawns client_connection for the next socket.   *)
(***************************************************************************)
Accept(c) ==
  /\ c <= MaxAccepted
  /\ pc[c] = "init"
  /\ \A d \in Conns : d < c => pc[d] # "init"
  /\ pc' = [pc EXCEPT ![c] = "greeting"]
  /\ last' = Event("accept", c, <<>>, Ok, <<>>, "none")
  /\ UNCHANGED <<users, rooms, lock, name, mailbox, wr>>
  /\ UNCHANGED <<wvars, fvars, has_errored>>

\* client.send_message(OutgoingMsg::Connected).await?
Greeting(c) ==
  /\ pc[c] = "greeting"
  /\ \E ok \in BOOLEAN :
       IF ok
         THEN /\ pc' = [pc EXCEPT ![c] = "registering"]
              /\ last' = Event("greeting", c, <<>>, Ok, <<Connected>>, "none")
              /\ UNCHANGED <<lock, name, mailbox, wr>>
         ELSE /\ Exit(c, mailbox)
              /\ last' = Event("greeting", c, <<>>, Ok, <<>>, "write_error")
  /\ UNCHANGED <<users, rooms>>
  /\ UNCHANGED <<wvars, fvars, has_errored>>

(***************************************************************************)
(* The select loops: the keep alive branch and the steps that only write.  *)
(* `loop` is "registering" or "active".                                    *)
(***************************************************************************)
\* Some(ping_pong_ball) = client.ppt.receiver.recv(): the select takes the
\* GotPong the handler sent itself, or the ball of a wake of the worker
Balls == ({worker_ball(elapsed) : elapsed \in ElapsedSamples} \ {NoBall}) \cup {GotPong}

KeepAlive(c, loop) ==
  /\ pc[c] = loop
  /\ \E ball \in Balls :
       IF ball = PongTimeout
         THEN /\ Exit(c, mailbox)
              /\ last' = Event("keep_alive", c, <<ball>>, Ok, <<>>, "pong_timeout")
         ELSE IF ball = SendPing
                THEN Send(c, "keep_alive", <<ball>>, Ping, mailbox)
                ELSE /\ last' = Event("keep_alive", c, <<ball>>, Ok, <<>>, "none")
                     /\ UNCHANGED <<pc, wr, lock, name, mailbox>>
  /\ UNCHANGED <<users, rooms>>
  /\ UNCHANGED <<wvars, fvars, has_errored>>

\* a frame answered with one line and no ServerState call.  After the decoder
\* error of an over-long line, Framed may end the stream at the next read.
Reply(c, loop, o, line) ==
  /\ pc[c] = loop
  /\ ~has_errored[c]
  /\ Send(c, o, <<>>, line, mailbox)
  /\ IF o = "format_error"
       THEN \E paused \in BOOLEAN : has_errored' = [has_errored EXCEPT ![c] = paused]
       ELSE UNCHANGED has_errored
  /\ UNCHANGED <<users, rooms>>
  /\ UNCHANGED <<wvars, fvars>>

\* framed.next() is None after a decoder error: ClientAction::Quit
StreamEnd(c, loop) ==
  /\ pc[c] = loop
  /\ has_errored[c]
  /\ has_errored' = [has_errored EXCEPT ![c] = FALSE]
  /\ IF loop = "registering"
       THEN /\ Exit(c, mailbox)
            /\ last' = Event("return", c, <<>>, Ok, <<>>, "eof")
       ELSE /\ pc' = [pc EXCEPT ![c] = "teardown"]
            /\ last' = Event("leave_loop", c, <<>>, Ok, <<>>, "eof")
            /\ UNCHANGED <<lock, name, mailbox, wr>>
  /\ UNCHANGED <<users, rooms>>
  /\ UNCHANGED <<wvars, fvars>>

\* ParsedAction::Process(IncomingMsg::Pong): GotPong goes to the ppt channel
Pong(c, loop) ==
  /\ pc[c] = loop
  /\ ~has_errored[c]
  /\ last' = Event("pong", c, <<>>, Ok, <<>>, "none")
  /\ UNCHANGED <<users, rooms, lock, pc, name, mailbox, wr>>
  /\ UNCHANGED <<wvars, fvars, has_errored>>

\* a frame the loop does nothing for
Ignore(c, loop, frame) ==
  /\ pc[c] = loop
  /\ ~has_errored[c]
  /\ last' = Event("ignore", c, <<frame>>, Ok, <<>>, "none")
  /\ UNCHANGED <<users, rooms, lock, pc, name, mailbox, wr>>
  /\ UNCHANGED <<wvars, fvars, has_errored>>

(***************************************************************************)
(* client_registration                                                     *)
(***************************************************************************)
RegKeepAlive(c) == KeepAlive(c, "registering")

RegEnd_clears(c, why) ==
  /\ pc[c] = "registering"
  /\ ~has_errored[c]
  /\ Exit(c, mailbox)
  /\ last' = Event("return", c, <<>>, Ok, <<>>, why)
  /\ users' = EmptyMap
  /\ rooms' = EmptyMap
  /\ UNCHANGED <<wvars, fvars, has_errored>>

\* the handler of the registration loop returns without a ServerState call
RegEnd(c, why) ==
  /\ pc[c] = "registering"
  /\ ~has_errored[c]
  /\ Exit(c, mailbox)
  /\ last' = Event("return", c, <<>>, Ok, <<>>, why)
  /\ UNCHANGED <<users, rooms>>
  /\ UNCHANGED <<wvars, fvars, has_errored>>

RegReadError(c) == RegEnd(c, "read_error")

RegFormatError(c) == Reply(c, "registering", "format_error", MaxLineLengthExceeded)

RegEof(c) == RegEnd(c, "eof")

RegStreamEnd(c) == StreamEnd(c, "registering")

RegName(c, n) ==
  /\ pc[c] = "registering"
  /\ ~has_errored[c]
  /\ lock = 0
  /\ LET r == add_user(State, n, NewUser(c))
     IN  /\ users' = r.users
         /\ rooms' = r.rooms
         /\ IF r.res = Ok
              THEN /\ name' = [name EXCEPT ![c] = n]
                   /\ pc' = [pc EXCEPT ![c] = "registered"]
                   /\ last' = Event("add_user", c, <<n>>, r.res, <<>>, "none")
                   /\ UNCHANGED <<lock, wr>>
              ELSE /\ LockedWrite(c, <<r.res>>, "reg_write")
                   /\ last' = Event("add_user", c, <<n>>, r.res, <<r.res>>, "none")
                   /\ UNCHANGED name
  /\ UNCHANGED mailbox
  /\ UNCHANGED <<wvars, fvars, has_errored>>

RegNameError(c, pe) == Reply(c, "registering", "parse_error", pe)

RegPong(c) == Pong(c, "registering")

RegQuit(c) == RegEnd(c, "quit")

\* the arm of client_registration's match that takes a ParsedAction
registration_arm(frame) ==
  IF frame[1] = "Process" /\ frame[2][1] = "Name"
    THEN "name"
    ELSE IF frame[1] = "Error" /\ frame[2] = CmdName
           THEN "name_error"
           ELSE IF frame = Process(MsgPong)
                  THEN "pong"
                  ELSE IF frame = Process(MsgQuit) THEN "quit" ELSE "ignore"

RegIgnore_answers(c, frame) ==
  /\ registration_arm(frame) = "ignore"
  /\ pc[c] = "registering"
  /\ ~has_errored[c]
  /\ Send(c, "ignore", <<frame>>, BadArguments, mailbox)
  /\ UNCHANGED <<users, rooms>>
  /\ UNCHANGED <<wvars, fvars, has_errored>>

RegIgnore(c, frame) ==
  /\ registration_arm(frame) = "ignore"
  /\ Ignore(c, "registering", frame)

(***************************************************************************)
(* client_connection                                                       *)
(***************************************************************************)
\* client.send_message(OutgoingMsg::Registered).await?
SendRegistered(c) ==
  /\ pc[c] = "registered"
  /\ \E ok \in BOOLEAN :
       IF ok
         THEN /\ pc' = [pc EXCEPT ![c] = "active"]
              /\ last' = Event("registered", c, <<>>, Ok, <<Registered>>, "none")
              /\ UNCHANGED <<lock, name, mailbox, wr>>
         ELSE /\ Exit(c, mailbox)
              /\ last' = Event("registered", c, <<>>, Ok, <<>>, "write_error")
  /\ UNCHANGED <<users, rooms>>
  /\ UNCHANGED <<wvars, fvars, has_errored>>

\* send_message completes for the first line pending under the MutexGuard; the
\* guard is dropped after the last line or when the I/O error ends the handler
WriteDone(c) ==
  /\ pc[c] \in {"reg_write", "act_write"}
  /\ \E ok \in BOOLEAN :
       IF ok
         THEN /\ wr' = [wr EXCEPT ![c] = @ - 1]
              /\ IF wr[c] = 1
                   THEN /\ pc' = [pc EXCEPT ![c] =
                                    IF pc[c] = "reg_write" THEN "registering" ELSE "active"]
                        /\ lock' = 0
                   ELSE UNCHANGED <<pc, lock>>
              /\ last' = Event("written", c, <<>>, Ok, <<>>, "none")
              /\ UNCHANGED <<name, mailbox>>
         ELSE /\ Exit(c, mailbox)
              /\ last' = Event("written", c, <<>>, Ok, <<>>, "write_error")
  /\ UNCHANGED <<users, rooms>>
  /\ UNCHANGED <<wvars, fvars, has_errored>>

\* a handler that polls its mailbox before it has written REGISTERED
ActMailbox_early(c) ==
  /\ pc[c] \in {"registered", "active"}
  /\ mailbox[c] # <<>>
  /\ Send(c, "mailbox", <<>>, Head(mailbox[c]), [mailbox EXCEPT ![c] = Tail(@)])
  /\ UNCHANGED <<users, rooms>>
  /\ UNCHANGED <<wvars, fvars, has_errored>>

\* Some(message) = client.receiver.recv()
ActMailbox(c) ==
  /\ pc[c] = "active"
  /\ mailbox[c] # <<>>
  /\ Send(c, "mailbox", <<>>, Head(mailbox[c]), [mailbox EXCEPT ![c] = Tail(@)])
  /\ UNCHANGED <<users, rooms>>
  /\ UNCHANGED <<wvars, fvars, has_errored>>

ActKeepAlive(c) == KeepAlive(c, "active")

\* the handler leaves the Active loop for client_teardown
ToTeardown(c, why) ==
  /\ pc[c] = "active"
  /\ ~has_errored[c]
  /\ pc' = [pc EXCEPT ![c] = IF why = "read_error" THEN "teardown_err" ELSE "teardown"]
  /\ last' = Event("leave_loop", c, <<>>, Ok, <<>>, why)
  /\ UNCHANGED <<users, rooms, lock, name, mailbox, wr>>
  /\ UNCHANGED <<wvars, fvars, has_errored>>

ActReadError(c) == ToTeardown(c, "read_error")

ActFormatError(c) == Reply(c, "active", "format_error", MaxLineLengthExceeded)

ActEof(c) == ToTeardown(c, "eof")

ActStreamEnd(c) == StreamEnd(c, "active")

ActQuit(c) == ToTeardown(c, "quit")

\* a ServerState call of the Active loop that only reports an error line
Answer(c, o, a, r) ==
  /\ users' = r.users
  /\ rooms' = r.rooms
  /\ IF r.res = Ok
       THEN /\ UNCHANGED <<pc, wr, lock>>
            /\ last' = Event(o, c, a, r.res, <<>>, "none")
       ELSE /\ LockedWrite(c, <<r.res>>, "act_write")
            /\ last' = Event(o, c, a, r.res, <<r.res>>, "none")

ActName(c, n) ==
  /\ pc[c] = "active"
  /\ ~has_errored[c]
  /\ lock = 0
  /\ LET r == rename_user(State, name[c], n)
     IN  /\ Answer(c, "rename_user", <<name[c], n>>, r)
         /\ name' = IF r.res = Ok THEN [name EXCEPT ![c] = n] ELSE name
  /\ UNCHANGED mailbox
  /\ UNCHANGED <<wvars, fvars, has_errored>>

ActJoin(c, room) ==
  /\ pc[c] = "active"
  /\ ~has_errored[c]
  /\ lock = 0
  /\ Answer(c, "join_room", <<room, name[c]>>, join_room(State, room, name[c]))
  /\ UNCHANGED <<name, mailbox>>
  /\ UNCHANGED <<wvars, fvars, has_errored>>

ActLeave(c, room) ==
  /\ pc[c] = "active"
  /\ ~has_errored[c]
  /\ lock = 0
  /\ Answer(c, "leave_room", <<room, name[c]>>, leave_room(State, room, name[c]))
  /\ UNCHANGED <<name, mailbox>>
  /\ UNCHANGED <<wvars, fvars, has_errored>>

\* a say_to_user / say_to_room call: Ok, an error line, or the unwrap() panic
DeliverUpTo(cap, c, o, a, r) ==
  /\ \A d \in Conns : Len(r.mailbox[d]) <= cap
  /\ IF r.res = Panic
       THEN /\ Exit(c, r.mailbox)
            /\ last' = Event(o, c, a, r.res, <<>>, "panic")
       ELSE /\ mailbox' = r.mailbox
            /\ IF r.res = Ok
                 THEN /\ UNCHANGED <<pc, wr, lock>>
                      /\ last' = Event(o, c, a, r.res, <<>>, "none")
                 ELSE /\ LockedWrite(c, <<r.res>>, "act_write")
                      /\ last' = Event(o, c, a, r.res, <<r.res>>, "none")
            /\ UNCHANGED name

Deliver(c, o, a, r) == DeliverUpTo(MaxMailbox, c, o, a, r)

ActSayRoom(c, room, message) ==
  /\ pc[c] = "active"
  /\ ~has_errored[c]
  /\ lock = 0
  /\ \E order \in (IF room \in DOMAIN rooms THEN Orders(rooms[room]) ELSE {<<>>}) :
       Deliver(c, "say_to_room", <<name[c], room, message>>,
               say_to_room(State, mailbox, name[c], room, message, order))
  /\ UNCHANGED <<users, rooms>>
  /\ UNCHANGED <<wvars, fvars, has_errored>>

ActSayUser(c, user, message) ==
  /\ pc[c] = "active"
  /\ ~has_errored[c]
  /\ lock = 0
  /\ Deliver(c, "say_to_user", <<name[c], user, message>>,
             say_to_user(State, mailbox, name[c], user, message))
  /\ UNCHANGED <<users, rooms>>
  /\ UNCHANGED <<wvars, fvars, has_errored>>

\* a rooms() / users() call: one line per entry, written under the mutex
List(c, o, a, lines) ==
  /\ IF lines = <<>>
       THEN UNCHANGED <<pc, wr, lock>>
       ELSE LockedWrite(c, lines, "act_write")
  /\ last' = Event(o, c, a, Ok, lines, "none")

ActRooms(c) ==
  /\ pc[c] = "active"
  /\ ~has_errored[c]
  /\ lock = 0
  /\ \E order \in Orders(rooms_of(State)) :
       List(c, "rooms", <<>>, [i \in DOMAIN order |-> RoomLine(order[i])])
  /\ UNCHANGED <<users, rooms, name, mailbox>>
  /\ UNCHANGED <<wvars, fvars, has_errored>>

ActUsers(c, room) ==
  /\ pc[c] = "active"
  /\ ~has_errored[c]
  /\ lock = 0
  /\ LET r == users_of(State, room)
     IN  IF r.res = Ok
           THEN \E order \in Orders(r.list) :
                  List(c, "users", <<room>>, [i \in DOMAIN order |-> UserLine(order[i])])
           ELSE /\ LockedWrite(c, <<r.res>>, "act_write")
                /\ last' = Event("users", c, <<room>>, r.res, <<r.res>>, "none")
  /\ UNCHANGED <<users, rooms, name, mailbox>>
  /\ UNCHANGED <<wvars, fvars, has_errored>>

ActPong(c) == Pong(c, "active")

ActParseError(c, pe) == Reply(c, "active", "parse_error", pe)

ActIgnore(c) == Ignore(c, "active", ParsedNone)

\* client_teardown, then the handler returns
Teardown(c) ==
  /\ pc[c] \in {"teardown", "teardown_err"}
  /\ IF name[c] = NoName
       THEN /\ Exit(c, mailbox)
            /\ last' = Event("teardown", c, <<>>, Ok, <<>>, "returned")
            /\ UNCHANGED <<users, rooms>>
       ELSE /\ lock = 0
            /\ \E order \in (IF name[c] \in DOMAIN users
                               THEN Orders(users[name[c]].rooms)
                               ELSE {<<>>}) :
                 LET r == remove_user(State, name[c], order)
                 IN  /\ users' = r.users
                     /\ rooms' = r.rooms
                     /\ last' = Event("remove_user", c, <<name[c]>>, r.res, <<>>, "returned")
                     /\ Exit(c, mailbox)
  /\ UNCHANGED <<wvars, fvars, has_errored>>

Next ==
  \E c \in Conns :
    \/ Accept(c)
    \/ Greeting(c)
    \/ RegKeepAlive(c)
    \/ RegReadError(c)
    \/ RegFormatError(c)
    \/ RegEof(c)
    \/ RegStreamEnd(c)
    \/ \E n \in UserNames : RegName(c, n)
    \/ \E pe \in {BadNameFormat, BadArguments} : RegNameError(c, pe)
    \/ RegPong(c)
    \/ RegQuit(c)
    \/ \E frame \in Frames : RegIgnore(c, frame)
    \/ SendRegistered(c)
    \/ WriteDone(c)
    \/ ActMailbox(c)
    \/ ActKeepAlive(c)
    \/ ActReadError(c)
    \/ ActFormatError(c)
    \/ ActEof(c)
    \/ ActStreamEnd(c)
    \/ ActQuit(c)
    \/ \E n \in UserNames : ActName(c, n)
    \/ \E room \in RoomNames : ActJoin(c, room)
    \/ \E room \in RoomNames : ActLeave(c, room)
    \/ \E room \in RoomNames, message \in Texts : ActSayRoom(c, room, message)
    \/ \E user \in UserNames, message \in Texts : ActSayUser(c, user, message)
    \/ ActRooms(c)
    \/ \E room \in RoomNames : ActUsers(c, room)
    \/ ActPong(c)
    \/ \E pe \in ParseErrors : ActParseError(c, pe)
    \/ ActIgnore(c)
    \/ Teardown(c)

Spec == Init /\ [][Next]_vars

(***************************************************************************)
(* The parser.  A line is a sequence of one-character strings.             *)
(***************************************************************************)
MaxTokens == 4

NameMin == 3
NameMax == 20

Upper == {"A", "B", "C", "D", "E", "F", "G", "H", "I", "J", "K", "L", "M",
          "N", "O", "P", "Q", "R", "S", "T", "U", "V", "W", "X", "Y", "Z"}
Lower == {"a", "b", "c", "d", "e", "f", "g", "h", "i", "j", "k", "l", "m",
          "n", "o", "p", "q", "r", "s", "t", "u", "v", "w", "x", "y", "z"}
Digits == {"0", "1", "2", "3", "4", "5", "6", "7", "8", "9"}
NameChars == Upper \cup Lower \cup Digits \cup {"-", "_"}

\* Regex ^<sigil>[A-Za-z0-9\-\_]{3,20}$
is_match(sigil, t) ==
  /\ Len(t) >= 1 + NameMin
  /\ Len(t) <= 1 + NameMax
  /\ t[1] = sigil
  /\ \A i \in 2..Len(t) : t[i] \in NameChars

NAME_REGEX(t) == is_match("@", t)
ROOM_REGEX(t) == is_match("#", t)

\* input.split(' '): the pieces between single spaces, empty pieces kept
RECURSIVE split(_, _, _, _)
split(input, i, piece, pieces) ==
  IF i > Len(input)
    THEN Append(pieces, piece)
    ELSE IF input[i] = " "
           THEN split(input, i + 1, <<>>, Append(pieces, piece))
           ELSE split(input, i + 1, Append(piece, input[i]), pieces)

\* pieces[from..].join(" ")
RECURSIVE join(_, _)
join(pieces, from) ==
  IF from > Len(pieces)
    THEN <<>>
    ELSE IF from = Len(pieces)
           THEN pieces[from]
           ELSE pieces[from] \o <<" ">> \o join(pieces, from + 1)

one_argument_shape_first(pieces, matches, msg, cmd, err) ==
  IF Len(pieces) >= 2 /\ ~matches
    THEN ParsedError(cmd, err)
    ELSE IF Len(pieces) = 2 THEN Process(msg) ELSE ParsedError(cmd, BadArguments)

\* a command with one name argument, checked by `regex`
one_argument(pieces, matches, msg, cmd, err) ==
  IF Len(pieces) = 2
    THEN IF matches THEN Process(msg) ELSE ParsedError(cmd, err)
    ELSE ParsedError(cmd, BadArguments)

no_argument(pieces, msg, cmd) ==
  IF Len(pieces) = 1 THEN Process(msg) ELSE ParsedError(cmd, BadArguments)

parse_say(pieces) ==
  IF Len(pieces) >= 3
    THEN IF ROOM_REGEX(pieces[2])
           THEN Process(MsgSayRoom(pieces[2], join(pieces, 3)))
           ELSE IF NAME_REGEX(pieces[2])
                  THEN Process(MsgSayUser(pieces[2], join(pieces, 3)))
                  ELSE IF pieces[2] = <<>>
                         THEN Panic
                         ELSE IF pieces[2][1] = "#"
                                THEN ParsedError(CmdSay, BadRoomNameFormat)
                                ELSE IF pieces[2][1] = "@"
                                       THEN ParsedError(CmdSay, BadNameFormat)
                                       ELSE ParsedError(CmdSay, BadArguments)
    ELSE ParsedError(CmdSay, BadArguments)

parse_incoming(input) ==
  IF input = <<>>
    THEN ParsedNone
    ELSE LET pieces == split(input, 1, <<>>, <<>>)
             arg == IF Len(pieces) >= 2 THEN pieces[2] ELSE <<>>
         IN  CASE pieces[1] = <<"Q", "U", "I", "T">> -> Process(MsgQuit)
               [] pieces[1] = <<"N", "A", "M", "E">> ->
                    one_argument(pieces, NAME_REGEX(arg), MsgName(arg), CmdName, BadNameFormat)
               [] pieces[1] = <<"J", "O", "I", "N">> ->
                    one_argument(pieces, ROOM_REGEX(arg), MsgJoin(arg), CmdJoin, BadRoomNameFormat)
               [] pieces[1] = <<"L", "E", "A", "V", "E">> ->
                    one_argument(pieces, ROOM_REGEX(arg), MsgLeave(arg), CmdLeave, BadRoomNameFormat)
               [] pieces[1] = <<"S", "A", "Y">> -> parse_say(pieces)
               [] pieces[1] = <<"R", "O", "O", "M", "S">> -> no_argument(pieces, MsgRooms, CmdRooms)
               [] pieces[1] = <<"U", "S", "E", "R", "S">> ->
                    one_argument(pieces, ROOM_REGEX(arg), MsgUsers(arg), CmdUsers, BadRoomNameFormat)
               [] pieces[1] = <<"P", "O", "N", "G">> -> no_argument(pieces, MsgPong, CmdPong)
               [] OTHER -> ParsedNone

\* The lines given to the parser: up to MaxTokens tokens joined by single
\* spaces.  The tokens are the command words, a word that is no command, the
\* empty token (two adjacent spaces, or a leading or trailing space), and
\* names and room names at and beyond the limits of the regexes.
LongName(n) == <<"@">> \o [i \in 1..n |-> "a"]

Tokens ==
  { <<"Q", "U", "I", "T">>, <<"N", "A", "M", "E">>, <<"J", "O", "I", "N">>,
    <<"L", "E", "A", "V", "E">>, <<"S", "A", "Y">>, <<"R", "O", "O", "M", "S">>,
    <<"U", "S", "E", "R", "S">>, <<"P", "O", "N", "G">>, <<"H", "E", "L", "P">>,
    <<>>,
    <<"@", "b", "o", "b">>, <<"@", "a", "b">>, <<"#", "g", "e", "n">>, <<"#", "a", "!", "c">>,
    <<"h", "i">>, LongName(NameMax), LongName(NameMax + 1) }

TokenLists == UNION {[1..n -> Tokens] : n \in 0..MaxTokens}

IsIncomingMsg(m) ==
  \/ m \in {MsgQuit, MsgRooms, MsgPong}
  \/ /\ Len(m) = 2
     /\ \/ m[1] = "Name" /\ NAME_REGEX(m[2])
        \/ m[1] \in {"Join", "Leave", "Users"} /\ ROOM_REGEX(m[2])
  \/ /\ Len(m) = 3
     /\ \/ m[1] = "SayRoom" /\ ROOM_REGEX(m[2])
        \/ m[1] = "SayUser" /\ NAME_REGEX(m[2])

IsParsedAction(r) ==
  \/ r = ParsedNone
  \/ Len(r) = 2 /\ r[1] = "Process" /\ IsIncomingMsg(r[2])
  \/ Len(r) = 3 /\ r[1] = "Error" /\ r[2] \in Commands /\ r[3] \in ParseErrors

fmt_trims(m) ==
  CASE m[1] = "Name" -> <<"N", "A", "M", "E", " ">> \o m[2]
    [] m[1] = "Join" -> <<"J", "O", "I", "N", " ">> \o m[2]
    [] m[1] = "Leave" -> <<"L", "E", "A", "V", "E", " ">> \o m[2]
    [] m[1] = "SayRoom" -> <<"S", "A", "Y", " ">> \o m[2] \o (IF m[3] = <<>> THEN <<>> ELSE <<" ">> \o m[3])
    [] m[1] = "SayUser" -> <<"S", "A", "Y", " ">> \o m[2] \o (IF m[3] = <<>> THEN <<>> ELSE <<" ">> \o m[3])
    [] m[1] = "Users" -> <<"U", "S", "E", "R", "S", " ">> \o m[2]
    [] m[1] = "Rooms" -> <<"R", "O", "O", "M", "S">>
    [] m[1] = "Quit" -> <<"Q", "U", "I", "T">>
    [] m[1] = "Pong" -> <<"P", "O", "N", "G">>

\* impl Display for IncomingMsg: the wire format of a message
fmt(m) ==
  CASE m[1] = "Name" -> <<"N", "A", "M", "E", " ">> \o m[2]
    [] m[1] = "Join" -> <<"J", "O", "I", "N", " ">> \o m[2]
    [] m[1] = "Leave" -> <<"L", "E", "A", "V", "E", " ">> \o m[2]
    [] m[1] = "SayRoom" -> <<"S", "A", "Y", " ">> \o m[2] \o <<" ">> \o m[3]
    [] m[1] = "SayUser" -> <<"S", "A", "Y", " ">> \o m[2] \o <<" ">> \o m[3]
    [] m[1] = "Users" -> <<"U", "S", "E", "R", "S", " ">> \o m[2]
    [] m[1] = "Rooms" -> <<"R", "O", "O", "M", "S">>
    [] m[1] = "Quit" -> <<"Q", "U", "I", "T">>
    [] m[1] = "Pong" -> <<"P", "O", "N", "G">>

\* The messages given to the formatter: names and room names at the limits of
\* the regexes and over every class of character, and texts of up to
\* MaxWords words, the empty word included (the empty text, leading, trailing
\* and doubled spaces).
MaxWords == 3

ValidNames == {<<"@", "b", "o", "b">>, <<"@", "A", "-", "_", "9">>, LongName(NameMax)}

ValidRooms == {<<"#">> \o Tail(n) : n \in ValidNames}

Payloads ==
  {join(ws, 1) : ws \in UNION {[1..n -> {<<>>, <<"h", "i">>, <<"S", "A", "Y">>, <<"#", "g", "e", "n">>}] :
                                 n \in 0..MaxWords}}

ValidMsgs ==
  {MsgQuit, MsgRooms, MsgPong}
    \cup {MsgName(n) : n \in ValidNames}
    \cup {MsgJoin(r) : r \in ValidRooms}
    \cup {MsgLeave(r) : r \in ValidRooms}
    \cup {MsgUsers(r) : r \in ValidRooms}
    \cup {MsgSayRoom(r, text) : r \in ValidRooms, text \in Payloads}
    \cup {MsgSayUser(n, text) : n \in ValidNames, text \in Payloads}

\* The parser on its own: a line arrives, parse_incoming is applied to it; or
\* a message is formatted and the line is parsed.
InitParser ==
  /\ users = EmptyMap
  /\ rooms = EmptyMap
  /\ lock = 0
  /\ pc = [c \in Conns |-> "init"]
  /\ name = [c \in Conns |-> NoName]
  /\ mailbox = [c \in Conns |-> <<>>]
  /\ wr = [c \in Conns |-> 0]
  /\ \/ \E ts \in TokenLists :
          last = [NoEvent EXCEPT !.op = "input", !.args = <<join(ts, 1)>>]
     \/ \E m \in ValidMsgs :
          last = [NoEvent EXCEPT !.op = "message", !.args = <<m>>]
  /\ WatchdogInit
  /\ LogsInit
  /\ FramedInit

ParseIncoming ==
  /\ last.op = "input"
  /\ last' = [last EXCEPT !.op = "parse_incoming", !.res = parse_incoming(last.args[1])]
  /\ UNCHANGED <<users, rooms, lock, pc, name, mailbox, wr>>
  /\ UNCHANGED <<wvars, fvars, has_errored>>

RoundTrip ==
  /\ last.op = "message"
  /\ last' = [last EXCEPT !.op = "round_trip", !.res = parse_incoming(fmt(last.args[1]))]
  /\ UNCHANGED <<users, rooms, lock, pc, name, mailbox, wr>>
  /\ UNCHANGED <<wvars, fvars, has_errored>>

NextParser ==
  \/ ParseIncoming
  \/ RoundTrip

SpecParser == InitParser /\ [][NextParser]_vars

(***************************************************************************)
(* The liveness watchdog of one registered connection, with its clock.     *)
(* Time is sampled one second before, at, and one second after each        *)
(* multiple of the worker's sleep.                                         *)
(***************************************************************************)
MaxTime == 361
MaxBalls == 2

Watched == 1

TimePoints == {t \in 0..MaxTime : t % WakeEvery \in {0, 1, WakeEvery - 1}}

Later(t) == {u \in TimePoints : u > t}

NextPoint(t) == CHOOSE u \in Later(t) : \A v \in Later(t) : u <= v

InitWatchdog ==
  /\ users = Put(EmptyMap, <<"@", 1>>, NewUser(Watched))
  /\ rooms = EmptyMap
  /\ lock = 0
  /\ pc = [c \in Conns |-> IF c = Watched THEN "active" ELSE "init"]
  /\ name = [c \in Conns |-> IF c = Watched THEN <<"@", 1>> ELSE NoName]
  /\ mailbox = [c \in Conns |-> <<>>]
  /\ wr = [c \in Conns |-> 0]
  /\ last = NoEvent
  /\ WatchdogInit
  /\ LogsInit
  /\ FramedInit

\* time passes while the worker sleeps
WdTick ==
  /\ pc[Watched] = "active"
  /\ Later(now) # {}
  /\ NextPoint(now) <= wake_at
  /\ now' = NextPoint(now)
  /\ last' = Event("tick", Watched, <<>>, Ok, <<>>, "none")
  /\ UNCHANGED <<users, rooms, lock, pc, name, mailbox, wr, last_activity, wake_at, ppt, pong_at, fvars, has_errored>>

\* the worker's sleep ends: it reads elapsed, sends the ball, sleeps again
WdWake ==
  /\ pc[Watched] = "active"
  /\ now = wake_at
  /\ Len(ppt) < MaxBalls
  /\ LET elapsed == now - last_activity
         ball == worker_ball(elapsed)
     IN  /\ ppt' = IF ball = NoBall THEN ppt ELSE Append(ppt, ball)
         /\ last' = [Event("wake", Watched, <<elapsed, ppt>>, ball, <<>>, "none")
                       EXCEPT !.pinged = @ \/ ball = SendPing]
  /\ wake_at' = now + WakeEvery
  /\ UNCHANGED <<users, rooms, lock, pc, name, mailbox, wr, now, last_activity, pong_at, fvars, has_errored>>

\* ParsedAction::Process(IncomingMsg::Pong): client.ppt.sender.send(GotPong)
WdPong ==
  /\ pc[Watched] = "active"
  /\ ~has_errored[Watched]
  /\ Len(ppt) < MaxBalls
  /\ ppt' = Append(ppt, GotPong)
  /\ pong_at' = now
  /\ last' = Event("pong", Watched, <<>>, Ok, <<>>, "none")
  /\ UNCHANGED <<users, rooms, lock, pc, name, mailbox, wr, now, last_activity, wake_at, fvars, has_errored>>

\* Some(ping_pong_ball) = client.ppt.receiver.recv() and its match
WdKeepAlive ==
  /\ pc[Watched] = "active"
  /\ ppt # <<>>
  /\ ppt' = Tail(ppt)
  /\ LET ball == Head(ppt)
     IN  IF ball = PongTimeout
           THEN /\ Exit(Watched, mailbox)
                /\ last' = Event("keep_alive", Watched, <<ball>>, Ok, <<>>, "pong_timeout")
                /\ UNCHANGED last_activity
           ELSE IF ball = SendPing
                  THEN /\ Send(Watched, "keep_alive", <<ball>>, Ping, mailbox)
                       /\ UNCHANGED last_activity
                  ELSE /\ last_activity' = now
                       /\ last' = [Event("keep_alive", Watched, <<ball>>, Ok, <<>>, "none")
                                     EXCEPT !.pinged = FALSE]
                       /\ UNCHANGED <<pc, wr, lock, name, mailbox>>
  /\ UNCHANGED <<users, rooms, now, wake_at, pong_at, fvars, has_errored>>

NextWatchdog ==
  \/ WdTick
  \/ WdWake
  \/ WdPong
  \/ WdKeepAlive

SpecWatchdog == InitWatchdog /\ [][NextWatchdog]_vars

(***************************************************************************)
(* Properties.                                                             *)
(***************************************************************************)
(* Message order.  Every connection is registered; the first NumSenders of *)
(* them issue SAY commands whose texts are numbered per sender, the others *)
(* are in every room, and every handler writes its mailbox to its socket.  *)
(***************************************************************************)
NumSenders == 2
MaxSays == 2
MaxQueue == 3

FifoName(c) == <<"@", c>>

FifoText(c) == <<"text", c, said[c] + 1>>

Listeners == {c \in Conns : c > NumSenders}

InitFifo ==
  /\ users = [n \in {FifoName(c) : c \in Conns} |->
                [sender |-> n[2], rooms |-> IF n[2] \in Listeners THEN RoomNames ELSE {}]]
  /\ rooms = [r \in RoomNames |-> {FifoName(c) : c \in Listeners}]
  /\ lock = 0
  /\ pc = [c \in Conns |-> "active"]
  /\ name = [c \in Conns |-> FifoName(c)]
  /\ mailbox = [c \in Conns |-> <<>>]
  /\ wr = [c \in Conns |-> 0]
  /\ last = NoEvent
  /\ WatchdogInit
  /\ LogsInit
  /\ FramedInit

\* SAY @user text
FifoSayUser(c, user) ==
  /\ pc[c] = "active"
  /\ ~has_errored[c]
  /\ lock = 0
  /\ c <= NumSenders
  /\ said[c] < MaxSays
  /\ DeliverUpTo(MaxQueue, c, "say_to_user", <<name[c], user, FifoText(c)>>,
                 say_to_user(State, mailbox, name[c], user, FifoText(c)))
  /\ said' = [said EXCEPT ![c] = @ + 1]
  /\ UNCHANGED <<users, rooms, written, wvars, has_errored>>

\* SAY #room text
FifoSayRoom(c, room) ==
  /\ pc[c] = "active"
  /\ ~has_errored[c]
  /\ lock = 0
  /\ c <= NumSenders
  /\ said[c] < MaxSays
  /\ \E order \in (IF room \in DOMAIN rooms THEN Orders(rooms[room]) ELSE {<<>>}) :
       DeliverUpTo(MaxQueue, c, "say_to_room", <<name[c], room, FifoText(c)>>,
                   say_to_room(State, mailbox, name[c], room, FifoText(c), order))
  /\ said' = [said EXCEPT ![c] = @ + 1]
  /\ UNCHANGED <<users, rooms, written, wvars, has_errored>>

\* the mailbox arm of a select that polls the arms in a fixed order, the frames
\* first: it is reached once the stream has ended
FifoMailbox_biased(c) ==
  /\ pc[c] = "active"
  /\ has_errored[c]
  /\ mailbox[c] # <<>>
  /\ Send(c, "mailbox", <<>>, Head(mailbox[c]), [mailbox EXCEPT ![c] = Tail(@)])
  /\ written' = IF last'.end = "none"
                  THEN [written EXCEPT ![c] = Append(@, Head(mailbox[c]))]
                  ELSE written
  /\ UNCHANGED <<users, rooms, said, wvars, has_errored>>

\* Some(message) = client.receiver.recv() => client.send_message(message).await?
FifoMailbox(c) ==
  /\ pc[c] = "active"
  /\ mailbox[c] # <<>>
  /\ Send(c, "mailbox", <<>>, Head(mailbox[c]), [mailbox EXCEPT ![c] = Tail(@)])
  /\ written' = IF last'.end = "none"
                  THEN [written EXCEPT ![c] = Append(@, Head(mailbox[c]))]
                  ELSE written
  /\ UNCHANGED <<users, rooms, said, wvars, has_errored>>

\* JOIN #room and LEAVE #room of the first listener
FifoJoin(c, room) ==
  /\ c = NumSenders + 1
  /\ ActJoin(c, room)

FifoLeave(c, room) ==
  /\ c = NumSenders + 1
  /\ ActLeave(c, room)

NextFifo ==
  \E c \in Conns :
    \/ \E user \in {FifoName(d) : d \in Listeners} : FifoSayUser(c, user)
    \/ \E room \in RoomNames : FifoSayRoom(c, room)
    \/ FifoMailbox(c)
    \/ \E room \in RoomNames : FifoJoin(c, room)
    \/ \E room \in RoomNames : FifoLeave(c, room)
    \/ WriteDone(c)

SpecFifo == InitFifo /\ [][NextFifo]_vars

(***************************************************************************)
(* A client that stops reading.  Every connection is registered and in the *)
(* main client loop; the handlers take the commands that write under the   *)
(* MutexGuard.  The runtime completes the socket writes of every           *)
(* connection but Stalled, whose peer no longer reads.                     *)
(***************************************************************************)
Stalled == 1

NextStall ==
  \E c \in Conns :
    \/ ActRooms(c)
    \/ \E room \in RoomNames : ActUsers(c, room)
    \/ \E room \in RoomNames : ActJoin(c, room)
    \/ \E room \in RoomNames : ActLeave(c, room)
    \/ WriteDone(c)

SpecStall ==
  /\ InitFifo
  /\ [][NextStall]_vars
  /\ WF_vars(\E c \in Conns \ {Stalled} : WriteDone(c))

(***************************************************************************)
(* The main client loop under fair selection.  Every connection is         *)
(* registered and in its loop.  The senders say; the listeners have all    *)
(* three event sources: the mailbox, the balls of the watchdog, and frames *)
(* (ROOMS) whose arm waits for the Registry lock and writes under it.      *)
(* tokio::select! starts its poll at a random arm, the Mutex grants the    *)
(* lock in the order of the requests, and the sockets stay writable: a     *)
(* started write completes.                                                *)
(***************************************************************************)
SelSays == 1

\* the SAY commands of a sender, to a listener or to the room
SelSay(c) ==
  /\ said[c] < SelSays
  /\ \/ \E user \in {FifoName(d) : d \in Listeners} : FifoSayUser(c, user)
     \/ \E room \in RoomNames : FifoSayRoom(c, room)

\* the frame arm is taken: ROOMS is parsed, server_state.lock().await starts
SelFrame(c) ==
  /\ pc[c] = "active"
  /\ ~has_errored[c]
  /\ pc' = [pc EXCEPT ![c] = "act_lock"]
  /\ last' = Event("frame", c, <<>>, Ok, <<>>, "none")
  /\ UNCHANGED <<users, rooms, lock, name, mailbox, wr>>
  /\ UNCHANGED <<wvars, fvars, has_errored>>

\* the lock is granted: state.rooms() and the writes under the MutexGuard
SelRooms(c) ==
  /\ pc[c] = "act_lock"
  /\ lock = 0
  /\ \E order \in Orders(rooms_of(State)) :
       List(c, "rooms", <<>>, [i \in DOMAIN order |-> RoomLine(order[i])])
  /\ UNCHANGED <<users, rooms, name, mailbox>>
  /\ UNCHANGED <<wvars, fvars, has_errored>>

NextSelect ==
  \/ \E c \in Conns :
       \/ SelSay(c)
       \/ FifoMailbox(c)
       \/ WriteDone(c)
  \/ \E c \in Listeners :
       \/ SelFrame(c)
       \/ SelRooms(c)
       \/ ActKeepAlive(c)

SpecSelect ==
  /\ InitFifo
  /\ [][NextSelect]_vars
  /\ \A c \in Listeners :
       /\ SF_vars(FifoMailbox(c))
       /\ SF_vars(SelRooms(c))
  /\ WF_vars(\E c \in Conns : WriteDone(c))

(***************************************************************************)
(* ServerState on its own: the operations of the Registry applied, from    *)
(* ServerState::new(), to the user names and to MaxRooms room names.       *)
(***************************************************************************)
MaxRooms == 2

ManyRooms == {<<"#", i>> : i \in 1..MaxRooms}

\* one call of a ServerState method, with result r
RegistryCall(o, a, r) ==
  /\ users' = r.users
  /\ rooms' = r.rooms
  /\ last' = Event(o, 1, a, r.res, <<>>, "none")
  /\ UNCHANGED <<lock, pc, name, mailbox, wr>>
  /\ UNCHANGED <<wvars, fvars, has_errored>>

NextRegistry ==
  \E n \in UserNames, room \in ManyRooms :
    \/ RegistryCall("add_user", <<n>>, add_user(State, n, NewUser(n[2])))
    \/ RegistryCall("join_room", <<room, n>>, join_room(State, room, n))
    \/ RegistryCall("leave_room", <<room, n>>, leave_room(State, room, n))
    \/ \E new_name \in UserNames :
         RegistryCall("rename_user", <<n, new_name>>, rename_user(State, n, new_name))
    \/ \E order \in (IF n \in DOMAIN users THEN Orders(users[n].rooms) ELSE {<<>>}) :
         RegistryCall("remove_user", <<n>>, remove_user(State, n, order))

SpecRegistry == Init /\ [][NextRegistry]_vars

(***************************************************************************)
InRoom(u, rs) == {r \in DOMAIN rs : u \in rs[r]}

\* C1: membership is bidirectional: for every user name u and room name r, r is
\* in users[u].rooms if and only if r is a key of rooms and u is in
\* rooms[r].members.
C1_BidirectionalMembership ==
  \A u \in UserNames, r \in RoomNames :
    (u \in DOMAIN users /\ r \in users[u].rooms)
      <=> (r \in DOMAIN rooms /\ u \in rooms[r])

\* C2: rename(old, new) where new is already a key of users returns
\* UserAlreadyExists(new) and leaves users, rooms and every mailbox binding
\* unchanged: the existing user named new is not overwritten.  Stated for a
\* new that names a user other than old.
C2_RenameToExistingRejected ==
  (/\ last.op = "rename_user"
   /\ last.args[2] \in DOMAIN last.users
   /\ last.args[2] # last.args[1])
    => /\ last.res = UserAlreadyExists(last.args[2])
       /\ users = last.users
       /\ rooms = last.rooms

\* C3: when an Active connection's handler takes PongTimeout, remove_user has
\* been executed for its recorded name by the time it ends: the name is absent
\* from users and from every room, so that add_user for it succeeds.
C3_PongTimeoutTearsDown ==
  (last.op = "keep_alive" /\ last.end = "pong_timeout" /\ last.at = "active")
    => /\ last.who \notin DOMAIN users
       /\ InRoom(last.who, rooms) = {}
       /\ add_user(State, last.who, NewUser(last.conn)).res = Ok

\* C4: a handler of a registered connection that ends for a transport I/O
\* error, on a read or on a write (a mailbox message, PING, an error line, a
\* ROOM/USER line or REGISTERED), has removed the connection's user from the
\* Registry.
C4_IoErrorTearsDown ==
  (/\ last.end \in {"read_error", "write_error", "returned"}
   /\ last.at \in {"registered", "active", "act_write", "teardown_err"}
   /\ Closed(last.conn))
    => \A u \in DOMAIN users : users[u].sender # last.conn

\* C5: when a target of say_to_user or say_to_room is in the Registry with its
\* mailbox closed, the enqueue for it is discarded: the call returns Ok, the
\* sender's handler keeps running, and every other recipient of a say_to_room
\* gets the message.
ClosedTargets ==
  IF last.op = "say_to_user"
    THEN {u \in {last.args[2]} \cap DOMAIN last.users :
            last.users[u].sender \in last.closed}
    ELSE IF last.op = "say_to_room" /\ last.args[2] \in DOMAIN last.rooms
           THEN {u \in (last.rooms[last.args[2]] \ {last.args[1]}) \cap DOMAIN last.users :
                   last.users[u].sender \in last.closed}
           ELSE {}

C5_ClosedMailboxDiscarded ==
  ClosedTargets # {}
    => /\ last.res = Ok
       /\ pc[last.conn] = "active"
       /\ last.op = "say_to_room" =>
            \A u \in (last.rooms[last.args[2]] \ {last.args[1]}) \cap DOMAIN last.users :
              LET to == last.users[u].sender
              IN  to \notin last.closed =>
                    mailbox[to] = Append(last.mailbox[to],
                                         SaidRoom(last.args[2], last.args[1], last.args[3]))

\* C6: no handler holds the Registry lock while it waits on a socket write.
C6_NoWriteUnderLock ==
  \A c \in Conns : ~(lock = c /\ pc[c] \in {"reg_write", "act_write"})

\* C7: a handler ends only because of events of its own connection (QUIT, EOF,
\* I/O error, liveness timeout), never because of what another connection did
\* or of how it ended; and the acceptor loop can always accept the next
\* connection.
OwnEvents == {"quit", "eof", "read_error", "write_error", "pong_timeout", "returned"}

C7_HandlersIsolated ==
  /\ (last.end # "none" /\ Closed(last.conn)) => last.end \in OwnEvents
  /\ \A c \in 1..MaxAccepted :
       (pc[c] = "init" /\ \A d \in Conns : d < c => pc[d] # "init") => ENABLED Accept(c)

\* C8: no room has an empty member set; a room appears only in a successful
\* join_room; a room whose last member leaves (leave_room) or is removed
\* (remove_user) is deleted in that operation, after which users(r) returns
\* RoomUnknown(r) and rooms() does not list r.
Gone(r) ==
  /\ r \notin DOMAIN rooms
  /\ users_of(State, r).res = RoomUnknown(r)
  /\ r \notin rooms_of(State)

C8_NoEmptyRoom ==
  /\ \A r \in DOMAIN rooms : rooms[r] # {}
  /\ \A r \in (DOMAIN rooms) \ (DOMAIN last.rooms) :
       last.op = "join_room" /\ last.res = Ok /\ last.args[1] = r
  /\ \A r \in DOMAIN last.rooms :
       /\ (last.op = "leave_room" /\ last.args[1] = r /\ last.rooms[r] = {last.args[2]})
            => Gone(r)
       /\ (last.op = "remove_user" /\ last.rooms[r] = {last.args[1]})
            => Gone(r)
       /\ r \notin DOMAIN rooms
            => /\ last.op \in {"leave_room", "remove_user"}
               /\ last.rooms[r] = {last.who}

\* C9: the handler of an Active connection that got QUIT or EOF executes
\* remove_user for its recorded name before it ends; afterwards the name is
\* absent from users and from the member set of every room, and every room
\* whose only member it was is deleted.
C9_QuitRemovesUser ==
  (last.at = "teardown" /\ Closed(last.conn))
    => /\ last.op = "remove_user"
       /\ last.args = <<last.who>>
       /\ last.who \notin DOMAIN users
       /\ InRoom(last.who, rooms) = {}
       /\ \A r \in DOMAIN last.rooms : last.rooms[r] = {last.who} => r \notin DOMAIN rooms

\* C10: after a successful rename(a, b): users has no key a and has key b whose
\* room set is the one a had; a is in no room's member set; b is in the member
\* set of each of those rooms; the entries and memberships of all other users
\* are unchanged.  Stated for b different from a.
C10_RenameMovesUser ==
  (last.op = "rename_user" /\ last.res = Ok /\ last.args[1] # last.args[2])
    => LET a == last.args[1]
           b == last.args[2]
       IN  /\ a \notin DOMAIN users
           /\ b \in DOMAIN users
           /\ users[b].rooms = last.users[a].rooms
           /\ InRoom(a, rooms) = {}
           /\ users[b].rooms \subseteq InRoom(b, rooms)
           /\ \A u \in UserNames \ {a, b} :
                /\ u \in DOMAIN users <=> u \in DOMAIN last.users
                /\ u \in DOMAIN users => users[u] = last.users[u]
                /\ InRoom(u, rooms) = InRoom(u, last.rooms)

\* C11: say_to_room(from, room, text) on an existing room returns Ok and
\* enqueues exactly one SaidRoom(room, from, text) on the mailbox of every
\* member other than from, nothing on from's own mailbox and nothing on any
\* other mailbox; on a room that does not exist it returns RoomUnknown(room)
\* and enqueues nothing.
C11_SayToRoomFanOut ==
  last.op = "say_to_room"
    => LET from == last.args[1]
           room == last.args[2]
           text == last.args[3]
           Recipients == {last.users[u].sender :
                            u \in (last.rooms[room] \ {from}) \cap DOMAIN last.users}
       IN  IF room \in DOMAIN last.rooms
             THEN /\ last.res = Ok
                  /\ \A d \in Conns :
                       mailbox[d] = IF d \in Recipients /\ d # last.conn
                                      THEN Append(last.mailbox[d], SaidRoom(room, from, text))
                                      ELSE last.mailbox[d]
             ELSE /\ last.res = RoomUnknown(room)
                  /\ mailbox = last.mailbox

\* C12: parse is total: for every line it returns a ParsedAction (None,
\* Process or Error) without failing, and it is a function of the line alone.
C12_ParseTotal ==
  last.op = "parse_incoming"
    => /\ last.res # Panic
       /\ IsParsedAction(last.res)
       /\ last.res = parse_incoming(last.args[1])

\* C13: a line of NAME, JOIN, LEAVE, USERS or SAY in which two adjacent spaces
\* put an empty token between the command and its argument is answered with
\* Error(cmd, BadArguments).
EmptyArgument(word) ==
  LET pieces == split(last.args[1], 1, <<>>, <<>>)
  IN  /\ Len(pieces) >= 3
      /\ pieces[1] = word
      /\ pieces[2] = <<>>
      /\ pieces[3] # <<>>

C13_EmptyTokenBadArguments ==
  last.op = "parse_incoming"
    => /\ EmptyArgument(<<"N", "A", "M", "E">>) => last.res = ParsedError(CmdName, BadArguments)
       /\ EmptyArgument(<<"J", "O", "I", "N">>) => last.res = ParsedError(CmdJoin, BadArguments)
       /\ EmptyArgument(<<"L", "E", "A", "V", "E">>) => last.res = ParsedError(CmdLeave, BadArguments)
       /\ EmptyArgument(<<"U", "S", "E", "R", "S">>) => last.res = ParsedError(CmdUsers, BadArguments)
       /\ EmptyArgument(<<"S", "A", "Y">>) => last.res = ParsedError(CmdSay, BadArguments)

\* C14: in Registering, NAME n with n absent from users adds the user with the
\* connection's sender and no rooms, records n, emits REGISTERED and moves to
\* Active; NAME n with n in users emits the UserAlreadyExists line, leaves the
\* Registry unchanged and returns to Registering with no name recorded, where
\* a NAME with a free name succeeds.
C14_Registration ==
  LET c == last.conn
  IN  /\ (last.op = "add_user" /\ last.args[1] \notin DOMAIN last.users)
           => /\ last.at = "registering"
              /\ last.res = Ok
              /\ users = Put(last.users, last.args[1], NewUser(c))
              /\ rooms = last.rooms
              /\ name[c] = last.args[1]
              /\ pc[c] = "registered"
              /\ last.lines = <<>>
      /\ (last.op = "registered" /\ last.end = "none")
           => /\ last.lines = <<Registered>>
              /\ pc[c] = "active"
              /\ name[c] = last.who
              /\ name[c] # NoName
      /\ (last.op = "add_user" /\ last.args[1] \in DOMAIN last.users)
           => /\ last.res = UserAlreadyExists(last.args[1])
              /\ last.lines = <<last.res>>
              /\ users = last.users
              /\ rooms = last.rooms
              /\ name[c] = NoName
              /\ pc[c] = "reg_write"
      /\ (last.op = "written" /\ last.at = "reg_write" /\ last.end = "none")
           => /\ pc[c] = "registering"
              /\ name[c] = NoName
              /\ lock = 0
              /\ users = last.users
              /\ \A n \in UserNames \ DOMAIN users :
                   /\ ENABLED RegName(c, n)
                   /\ add_user(State, n, NewUser(c)).res = Ok

\* the error line of a NAME with a taken name has been written and the
\* connection is back in Registering, with a free name left
C14_Witness ==
  /\ last.op = "written"
  /\ last.at = "reg_write"
  /\ pc[last.conn] = "registering"
  /\ DOMAIN users # {}
  /\ UserNames \ DOMAIN users # {}

\* C15: in Registering every parsed command other than NAME, QUIT and PONG
\* (JOIN, LEAVE, SAY, USERS, ROOMS) and every parse error of a command other
\* than NAME is ignored: nothing is written, the Registry and the mailboxes are
\* unchanged, and the connection stays in Registering.
IgnoredInRegistering ==
  {f \in Frames :
     \/ f[1] = "Process" /\ f[2][1] \in {"Join", "Leave", "SayRoom", "SayUser", "Users", "Rooms"}
     \/ f[1] = "Error" /\ f[2] # CmdName}

C15_RegisteringIgnores ==
  /\ \A f \in IgnoredInRegistering : registration_arm(f) = "ignore"
  /\ (last.at = "registering" /\ last.args \in {<<f>> : f \in IgnoredInRegistering})
       => /\ last.op = "ignore"
          /\ last.lines = <<>>
          /\ last.end = "none"
          /\ users = last.users
          /\ rooms = last.rooms
          /\ mailbox = last.mailbox
          /\ pc[last.conn] = "registering"
          /\ name[last.conn] = NoName
          /\ wr[last.conn] = 0
          /\ lock # last.conn

\* a JOIN was ignored in Registering while a user is registered
C15_Witness ==
  /\ last.op = "ignore"
  /\ last.at = "registering"
  /\ last.args = <<Process(MsgJoin(<<"#", 1>>))>>
  /\ DOMAIN users # {}

\* C16: the watchdog wakes every 90 s; at a wake, with elapsed the time since
\* last_activity, it sends PongTimeout if elapsed >= 180, SendPing if
\* 90 <= elapsed < 180 and nothing if elapsed < 90, and nothing else.
C16_WatchdogThresholds ==
  last.op = "wake"
    => LET elapsed == last.args[1]
           before == last.args[2]
       IN  /\ elapsed = now - last_activity
           /\ now % 90 = 0
           /\ wake_at = now + 90
           /\ elapsed >= 180 => ppt = Append(before, PongTimeout)
           /\ (90 <= elapsed /\ elapsed < 180) => ppt = Append(before, SendPing)
           /\ elapsed < 90 => ppt = before

\* a wake one second short of the deadline sent SendPing
C16_Witness ==
  /\ last.op = "wake"
  /\ last.args[1] = 179
  /\ last.res = SendPing
  /\ ppt # <<>>

\* C17: a handler ends for the liveness timeout only when at least 180 s have
\* passed since it last parsed a PONG of its client, or since the connection
\* started if it parsed none.
C17_TimeoutOnlyAfterSilence ==
  (last.op = "keep_alive" /\ last.end = "pong_timeout")
    => now - pong_at >= 180

\* the messages connection c has written and still holds, oldest first
Log(c) == written[c] \o mailbox[c]

\* the text of a SaidUser / SaidRoom message
TextOf(m) == m[Len(m)]

\* C18: the messages one sender's SAY commands enqueue for a recipient reach
\* the recipient's socket in the order the sender issued the commands, none of
\* them twice: in what a recipient has written and still holds, the command
\* numbers of one sender are strictly increasing, and nothing is written that
\* was not enqueued.
C18_SenderOrderKept ==
  /\ \A r \in Conns : \A i, j \in DOMAIN Log(r) :
       (i < j /\ TextOf(Log(r)[i])[2] = TextOf(Log(r)[j])[2])
         => TextOf(Log(r)[i])[3] < TextOf(Log(r)[j])[3]
  /\ (last.op = "mailbox" /\ last.end = "none")
       => /\ last.lines = <<Head(last.mailbox[last.conn])>>
          /\ mailbox[last.conn] = Tail(last.mailbox[last.conn])

C18_Witness ==
  \E r \in Conns :
    /\ Len(written[r]) >= 2
    /\ written[r][1][1] # written[r][2][1]
    /\ TextOf(written[r][1])[2] = TextOf(written[r][2])[2]

\* C19: one say_to_room is atomic with respect to every other Registry
\* operation: two recipients that both got the room messages of two different
\* senders hold them in the same relative order, and a say_to_room that
\* returns Ok has enqueued its message for exactly the connections of the
\* members the room had when the call started, the sender's name excepted.
C19_RoomSayAtomic ==
  /\ \A r1, r2 \in Conns : \A i, j \in DOMAIN Log(r1) : \A k, l \in DOMAIN Log(r2) :
       ( /\ Log(r1)[i] = Log(r2)[k]
         /\ Log(r1)[j] = Log(r2)[l]
         /\ Log(r1)[i][1] = "SaidRoom"
         /\ Log(r1)[j][1] = "SaidRoom"
         /\ TextOf(Log(r1)[i])[2] # TextOf(Log(r1)[j])[2] )
         => (i < j <=> k < l)
  /\ (last.op = "say_to_room" /\ last.res = Ok)
       => LET room == last.args[2]
              to == {last.users[u].sender :
                       u \in (last.rooms[room] \ {last.args[1]}) \cap DOMAIN last.users}
          IN  \A d \in Conns :
                mailbox[d] = IF d \in to
                               THEN Append(last.mailbox[d],
                                           SaidRoom(room, last.args[1], last.args[3]))
                               ELSE last.mailbox[d]

C19_Witness ==
  \E r1, r2 \in Conns :
    /\ r1 # r2
    /\ Len(written[r1]) >= 2
    /\ written[r1] = written[r2]
    /\ written[r1][1][1] = "SaidRoom"
    /\ written[r1][2][1] = "SaidRoom"
    /\ TextOf(written[r1][1])[2] # TextOf(written[r1][2])[2]

\* C20: an inbound line over the 1024-byte limit does not close the
\* connection: when the Active handler has written its answer, the answer is
\* "ERROR max length reached", the Registry and the recorded name are as
\* before, and the handler is in Active and takes the client's next command.
C20_OverlongLineKeepsConnection ==
  (last.op = "format_error" /\ last.at = "active" /\ last.end = "none")
    => /\ last.lines = <<MaxLineLengthExceeded>>
       /\ users = last.users
       /\ rooms = last.rooms
       /\ name[last.conn] = last.who
       /\ pc[last.conn] = "active"
       /\ ENABLED ActPong(last.conn)

\* C21: parser round trip: parsing the wire format of a valid IncomingMsg
\* (names and rooms of the required shape, any text, the empty text and texts
\* with spaces included) gives Process of that message.
C21_RoundTrip ==
  last.op = "round_trip" => last.res = Process(last.args[1])

C21_Witness ==
  /\ last.op = "round_trip"
  /\ last.args[1][1] = "SayUser"
  /\ last.args[1][3] = <<" ", "h", "i", " ">>
  /\ last.res = Process(last.args[1])

\* C22: SAY with three tokens or more: a target of the room shape gives
\* SayRoom, of the user shape SayUser, a target starting with '#' that does not
\* match gives BadRoomNameFormat, starting with '@' BadNameFormat, a target
\* with neither prefix BadArguments; with fewer than three tokens the result
\* is BadArguments; the payload is the tokens from the third on, rejoined with
\* single spaces.
C22_SayRouting ==
  LET pieces == split(last.args[1], 1, <<>>, <<>>)
      target == pieces[2]
  IN  (last.op = "parse_incoming" /\ pieces[1] = <<"S", "A", "Y">>)
        => IF Len(pieces) < 3
             THEN last.res = ParsedError(CmdSay, BadArguments)
             ELSE last.res =
                    CASE ROOM_REGEX(target) -> Process(MsgSayRoom(target, join(pieces, 3)))
                      [] NAME_REGEX(target) -> Process(MsgSayUser(target, join(pieces, 3)))
                      [] OTHER ->
                           IF target # <<>> /\ target[1] = "#"
                             THEN ParsedError(CmdSay, BadRoomNameFormat)
                             ELSE IF target # <<>> /\ target[1] = "@"
                                    THEN ParsedError(CmdSay, BadNameFormat)
                                    ELSE ParsedError(CmdSay, BadArguments)

\* C23: NAME, JOIN, LEAVE and USERS check the number of tokens before the
\* shape of the argument: with exactly two tokens the result is Process of
\* the message if the argument matches and Error(cmd, BadNameFormat or
\* BadRoomNameFormat) if not; with any other number of tokens it is
\* Error(cmd, BadArguments), a malformed argument included.
C23_ArityBeforeShape ==
  LET pieces == split(last.args[1], 1, <<>>, <<>>)
      arg == pieces[2]
      want(matches, msg, cmd, err) ==
        last.res = IF Len(pieces) = 2
                     THEN IF matches THEN Process(msg) ELSE ParsedError(cmd, err)
                     ELSE ParsedError(cmd, BadArguments)
  IN  last.op = "parse_incoming"
        => /\ pieces[1] = <<"N", "A", "M", "E">>
                => want(Len(pieces) = 2 /\ NAME_REGEX(arg), MsgName(arg), CmdName, BadNameFormat)
           /\ pieces[1] = <<"J", "O", "I", "N">>
                => want(Len(pieces) = 2 /\ ROOM_REGEX(arg), MsgJoin(arg), CmdJoin, BadRoomNameFormat)
           /\ pieces[1] = <<"L", "E", "A", "V", "E">>
                => want(Len(pieces) = 2 /\ ROOM_REGEX(arg), MsgLeave(arg), CmdLeave, BadRoomNameFormat)
           /\ pieces[1] = <<"U", "S", "E", "R", "S">>
                => want(Len(pieces) = 2 /\ ROOM_REGEX(arg), MsgUsers(arg), CmdUsers, BadRoomNameFormat)

C23_Witness ==
  /\ last.op = "parse_incoming"
  /\ last.args[1] = <<"J", "O", "I", "N", " ", "#", "a", "!", "c", " ", "h", "i">>
  /\ last.res = ParsedError(CmdJoin, BadArguments)

\* C24: at every point, for every connection in Active, users holds the
\* connection's recorded name and the User under that name holds the
\* connection's own mailbox sender; no two live connections have the same
\* recorded name.
C24_ActiveNameOwned ==
  /\ \A c \in Conns :
       pc[c] \in {"active", "act_write"}
         => /\ name[c] \in DOMAIN users
            /\ users[name[c]].sender = c
  /\ \A c, d \in Conns :
       (c # d /\ ~Closed(c) /\ ~Closed(d) /\ name[c] # NoName) => name[c] # name[d]

\* C25: after a handler has ended, for whatever reason, the Registry holds no
\* user whose mailbox receiver belonged to that handler.
C25_NoOrphanedUser ==
  \A c \in Conns : Closed(c) => \A u \in DOMAIN users : users[u].sender # c

\* C26: when one client stops reading and its handler's socket write blocks
\* for ever, a command of another connection that needs the Registry is still
\* processed: the Registry lock does not stay with the stalled handler.
C26_LockGrantedToOthers ==
  (lock = Stalled) ~> (lock # Stalled)

\* C27: in Registering, QUIT, end of stream and PongTimeout end the connection
\* with no Registry operation: users, rooms and every mailbox are as before,
\* and no name is recorded for the connection.
C27_RegisteringEndsClean ==
  (last.at = "registering" /\ last.end \in {"quit", "eof", "pong_timeout"})
    => /\ Closed(last.conn)
       /\ users = last.users
       /\ rooms = last.rooms
       /\ mailbox = last.mailbox
       /\ last.who = NoName
       /\ name[last.conn] = NoName
       /\ \A u \in DOMAIN users : users[u].sender # last.conn

C27_Witness ==
  /\ last.at = "registering"
  /\ last.end = "quit"
  /\ Closed(last.conn)
  /\ rooms # EmptyMap
  /\ \E d \in Conns : mailbox[d] # <<>>

\* C28: a Registry operation that returns an error leaves users and rooms
\* unchanged and enqueues nothing: add_user on an existing name, remove_user
\* and rename_user on an unknown name, join_room with an unknown user,
\* leave_room with an unknown room or a user that is no member, users on an
\* unknown room, say_to_user to an unknown user.
C28_ErrorsChangeNothing ==
  (/\ last.op \in {"add_user", "remove_user", "rename_user", "join_room", "leave_room",
                   "users", "say_to_user", "say_to_room"}
   /\ last.res \notin {Ok, Panic})
    => /\ users = last.users
       /\ rooms = last.rooms
       /\ \A d \in Conns : mailbox[d] = last.mailbox[d] \/ (d = last.conn /\ Closed(d))

C28_Witness ==
  /\ last.op = "join_room"
  /\ last.res = UserUnknown(last.who)
  /\ users # EmptyMap
  /\ rooms = last.rooms

\* C29: after a successful rename(a, b) issued by a connection, b different
\* from a, the handler's recorded name is b and the mailbox is the
\* connection's own: say_to_user to b is delivered to that connection,
\* say_to_user to a returns UserUnknown(a), and remove_user of the recorded
\* name removes b; after a rename error the recorded name is still a.
C29_RenameKeepsMailbox ==
  LET c == last.conn
      a == last.args[1]
      b == last.args[2]
      text == <<"text", 1>>
  IN  /\ (last.op = "rename_user" /\ last.res = Ok /\ a # b)
         => /\ name[c] = b
            /\ mailbox = last.mailbox
            /\ say_to_user(State, mailbox, b, b, text)
                 = Said([mailbox EXCEPT ![c] = Append(@, SaidUser(b, text))], Ok)
            /\ say_to_user(State, mailbox, b, a, text) = Said(mailbox, UserUnknown(a))
            /\ b \notin DOMAIN remove_user(State, name[c], <<>>).users
      /\ (last.op = "rename_user" /\ last.res # Ok)
         => name[c] = last.who /\ last.who = a

\* C30: join_room(r, u) for an existing user u returns Ok; afterwards u is a
\* member of r and r is in u's room set, r having been created if it did not
\* exist; no other user's entry and no other room's member set has changed;
\* the same join again returns Ok and changes nothing.
C30_JoinRoom ==
  LET r == last.args[1]
      u == last.args[2]
  IN  (last.op = "join_room" /\ u \in DOMAIN last.users)
        => /\ last.res = Ok
           /\ DOMAIN users = DOMAIN last.users
           /\ users[u] = [last.users[u] EXCEPT !.rooms = @ \cup {r}]
           /\ \A v \in DOMAIN users \ {u} : users[v] = last.users[v]
           /\ DOMAIN rooms = DOMAIN last.rooms \cup {r}
           /\ rooms[r] = (IF r \in DOMAIN last.rooms THEN last.rooms[r] ELSE {}) \cup {u}
           /\ \A q \in DOMAIN rooms \ {r} : rooms[q] = last.rooms[q]
           /\ join_room(State, r, u) = Reg(users, rooms, Ok)

C30_Witness ==
  /\ last.op = "join_room"
  /\ last.res = Ok
  /\ last.args[1] \notin DOMAIN last.rooms
  /\ \E q \in DOMAIN rooms \ {last.args[1]} : rooms[q] \ {last.args[2]} # {}

\* C31: say_to_user(from, to, text) with to in users enqueues exactly one
\* SaidUser(from, text) on the mailbox of to and on no other mailbox and leaves
\* users and rooms unchanged, to equal to from included (the sender receives
\* its own message); with to absent from users it returns UserUnknown(to) and
\* enqueues nothing.
C31_SayToUser ==
  LET from == last.args[1]
      to == last.args[2]
      text == last.args[3]
  IN  last.op = "say_to_user"
        => /\ users = last.users
           /\ rooms = last.rooms
           /\ IF to \in DOMAIN last.users
                THEN /\ last.res = Ok
                     /\ mailbox = [last.mailbox EXCEPT ![last.users[to].sender] =
                                     Append(@, SaidUser(from, text))]
                ELSE /\ last.res = UserUnknown(to)
                     /\ mailbox = last.mailbox

\* C32: on every connection CONNECTED is the first line written, and
\* REGISTERED is written before any line delivered from the mailbox (SAID),
\* also when another user sent to the new name between add_user and the
\* write of REGISTERED.
C32_GreetingOrder ==
  /\ \A c \in Conns :
       last.sent[c] \in {<<>>, <<"CONNECTED">>, <<"CONNECTED", "REGISTERED">>}
  /\ last.op = "mailbox" /\ last.lines # <<>>
       => /\ Kind(last.lines[1]) = "SAID"
          /\ last.sent[last.conn] = <<"CONNECTED", "REGISTERED">>

\* REGISTERED is written while a message sent to the new name is queued
C32_Witness ==
  /\ last.op = "registered"
  /\ last.lines = <<Registered>>
  /\ last.at = "registered"
  /\ last.mailbox[last.conn] # <<>>
  /\ mailbox[last.conn] = last.mailbox[last.conn]
  /\ Head(mailbox[last.conn])[1] = "SaidUser"
  /\ last.sent[last.conn] = <<"CONNECTED", "REGISTERED">>

\* C33: with the worker waking every 90 s, every PongTimeout it sends comes
\* after a SendPing it sent since last_activity was last set (or since the
\* connection started); and while last_activity is the start of the
\* connection, the first wake sends SendPing and the second PongTimeout.
C33_PingBeforeTimeout ==
  last.op = "wake"
    => /\ last.res = PongTimeout => last.pinged
       /\ last_activity = 0 /\ now = WakeEvery => last.res = SendPing
       /\ last_activity = 0 /\ now = 2 * WakeEvery => last.res = PongTimeout

\* PongTimeout is sent for a client that answered an earlier PING: the
\* SendPing before it was sent after last_activity was set
C33_Witness ==
  /\ last.op = "wake"
  /\ last.res = PongTimeout
  /\ last_activity > 0
  /\ last.pinged

\* the SAID lines of the senders
SaidLines ==
  UNION {{SaidUser(FifoName(c), <<"text", c, i>>)} \cup
           {SaidRoom(room, FifoName(c), <<"text", c, i>>) : room \in RoomNames} :
         c \in 1..NumSenders, i \in 1..SelSays}

\* C34: with writable sockets and fair selection among the event sources of
\* the handler, every message enqueued on the mailbox of a connection is in
\* the end written to its socket unless the connection ends; and a frame
\* whose arm waits for the Registry lock is in the end processed.
C34_MailboxDrained ==
  /\ \A c \in Listeners, m \in SaidLines :
       (\E i \in DOMAIN mailbox[c] : mailbox[c][i] = m)
         ~> (\/ \E i \in DOMAIN written[c] : written[c][i] = m
             \/ pc[c] = "closed")
  /\ \A c \in Listeners :
       (pc[c] = "act_lock") ~> (pc[c] # "act_lock")

\* a message is written from a mailbox that holds more, after the handler
\* processed a frame, while another handler writes under the MutexGuard
C34_Witness ==
  /\ last.op = "mailbox"
  /\ last.lines = <<Head(last.mailbox[last.conn])>>
  /\ Len(last.mailbox[last.conn]) > 1
  /\ last.lines[1] \in SaidLines
  /\ lock \notin {0, last.conn}
  /\ pc[last.conn] = "active"

====
